---- MODULE Spec2Model ----
(***************************************************************************)
(* A model of pyeto/fao.py: a flat library of numeric functions for        *)
(* estimating reference evapotranspiration.                                *)
(*                                                                         *)
(* The library keeps no state of its own beyond two module constants.  The *)
(* state of the model is therefore the call a client has just made (the    *)
(* function, the arguments as the client passed them) and its outcome (a   *)
(* returned number or the exception that left the function), together with *)
(* the two module constants.  Every function is one action: a client picks *)
(* arguments from a bounded set and the action records the outcome the     *)
(* function body produces for them; Return is the client consuming the     *)
(* outcome, after which it may call again.                                 *)
(*                                                                         *)
(* Numbers.  Python floats are modelled by exact rationals [n, d] in       *)
(* lowest terms; +, -, *, / are exact.  The functions of the math module   *)
(* (exp, sqrt, sin, cos, tan, acos) are modelled by fixed-point            *)
(* approximations that return rationals with a fixed denominator.          *)
(* Python 3 semantics are assumed throughout (true division, a negative    *)
(* float raised to the power 0.5 is a complex number).                     *)
(*                                                                         *)
(* Each def is modelled as written.  Lines 605-606 of fao.py are not valid *)
(* Python; the model confines that failure to the function that holds them *)
(* (solar_radiation_from_sun_hours) and models the other functions from    *)
(* their own bodies.                                                       *)
(*                                                                         *)
(* STEFAN_BOLTZMANN_CONSTANT is held in units of 1e-8, so that 4.903e-9 is *)
(* the rational 4903/10^4, and math.pow(t, 4) is held in units of 1e8, as  *)
(* (t/100)^4: their product is the exact rational product of the source.   *)
(*                                                                         *)
(* A second specification, SpecConc, runs calls from several threads of    *)
(* one interpreter: a thread enters a function (its arguments become the   *)
(* locals of its own frame), later runs the body, which reads the module   *)
(* constants as they are at that moment, and later hands the outcome to    *)
(* its caller.                                                             *)
(***************************************************************************)
EXTENDS Integers, Sequences, FiniteSets, TLC

VARIABLES fn, args, result, SOLAR_CONSTANT, STEFAN_BOLTZMANN_CONSTANT, frames

vars == <<fn, args, result, SOLAR_CONSTANT, STEFAN_BOLTZMANN_CONSTANT, frames>>

-----------------------------------------------------------------------------
(* Bounds of the client's choices of arguments. *)

\* temperatures [deg C] are 5*k - 10 for k in 0..MaxTempSteps
MaxTempSteps == 7
\* delta_t [days] is k/2 for k in 0..MaxDeltaTHalves
MaxDeltaTHalves == 4
\* days of the year tried are -1..MaxDoy and 400
MaxDoy == 367
\* latitudes [rad] tried are k/2 for k in -MaxLatHalves..MaxLatHalves, +-pi/2
MaxLatHalves == 4
\* solar declinations [rad] tried are k/10 for k in -MaxSdTenths..MaxSdTenths
\* and +-0.4093
MaxSdTenths == 5
\* hours tried are 6*k - 6 for k in 0..MaxHourSteps
MaxHourSteps == 6
\* psychrometer types tried are 0..MaxPsychrometer
MaxPsychrometer == 4
\* soil heat flux values given explicitly are k/2 for k in 0..MaxShfHalves
MaxShfHalves == 2

-----------------------------------------------------------------------------
(* Exact rational arithmetic: the model of Python's float arithmetic. *)

Abs(x) == IF x < 0 THEN -x ELSE x

RECURSIVE GCD(_, _)
GCD(a, b) == IF b = 0 THEN a ELSE GCD(b, a % b)

\* the rational n/d in lowest terms with a positive denominator (d # 0)
Rat(n, d) ==
    LET g == GCD(Abs(n), Abs(d))
        s == IF d < 0 THEN -1 ELSE 1
    IN  [n |-> (s * n) \div g, d |-> (s * d) \div g]

Zero == [n |-> 0, d |-> 1]
One == [n |-> 1, d |-> 1]
Int2R(k) == [n |-> k, d |-> 1]

RNeg(a) == [n |-> -a.n, d |-> a.d]

RAdd(a, b) ==
    LET g == GCD(a.d, b.d)
    IN  Rat(a.n * (b.d \div g) + b.n * (a.d \div g), (a.d \div g) * b.d)

RSub(a, b) == RAdd(a, RNeg(b))

RMul(a, b) ==
    LET g1 == GCD(Abs(a.n), b.d)
        g2 == GCD(Abs(b.n), a.d)
    IN  Rat((a.n \div g1) * (b.n \div g2), (a.d \div g2) * (b.d \div g1))

\* a / b for b # 0
RDiv(a, b) == RMul(a, Rat(b.d, b.n))

RLt(a, b) == a.n * b.d < b.n * a.d
RLe(a, b) == a.n * b.d <= b.n * a.d
RMin(a, b) == IF RLt(b, a) THEN b ELSE a
RMax(a, b) == IF RLt(a, b) THEN b ELSE a

\* floor(r * scale): the fixed-point image of a rational
ToFix(r, scale) == (r.n * scale) \div r.d

-----------------------------------------------------------------------------
(* Outcomes of a call. *)

\* the function returned the float v
Float(v) == [kind |-> "float", val |-> v]
\* the function was left by the exception exc
Raise(exc) == [kind |-> exc, val |-> Zero]
\* the function returned a complex number (imaginary part non-zero)
Complex == [kind |-> "complex", val |-> Zero]

-----------------------------------------------------------------------------
(* psychrometric_const_of_psychrometer, fao.py 521-550 *)

psychrometric_const_of_psychrometer_wrong_else(psychrometer, atmos_pres) ==
    IF psychrometer = 1 THEN Float(RMul(Rat(662, 1000000), atmos_pres))
    ELSE IF psychrometer = 2 THEN Float(RMul(Rat(800, 1000000), atmos_pres))
    ELSE Float(RMul(Rat(1200, 1000000), atmos_pres))

psychrometric_const_of_psychrometer(psychrometer, atmos_pres) ==
    IF psychrometer = 1 THEN Float(RMul(Rat(662, 1000000), atmos_pres))
    ELSE IF psychrometer = 2 THEN Float(RMul(Rat(800, 1000000), atmos_pres))
    ELSE IF psychrometer = 3 THEN Float(RMul(Rat(1200, 1000000), atmos_pres))
    ELSE Raise("ValueError")

-----------------------------------------------------------------------------
(* daily_soil_heat_flux, fao.py 70-103 *)

\* the defaults of the signature, line 71
soil_heat_cap_default == Rat(21, 10)
delta_z_default == Rat(1, 10)

\* Python's binding of a parameter that has a default: the value passed if
\* the caller passed one, the default otherwise
Bind(given, name, value, default) == IF name \in given THEN value ELSE default

daily_soil_heat_flux_guard_le(t_cur, t_prev, delta_t, soil_heat_cap, delta_z) ==
    IF RLe(delta_t, One)
    THEN Raise("ValueError")
    ELSE Float(RMul(RMul(soil_heat_cap, RDiv(RSub(t_cur, t_prev), delta_t)),
                    delta_z))

daily_soil_heat_flux(t_cur, t_prev, delta_t, soil_heat_cap, delta_z) ==
    IF RLt(delta_t, One)
    THEN Raise("ValueError")
    ELSE Float(RMul(RMul(soil_heat_cap, RDiv(RSub(t_cur, t_prev), delta_t)),
                    delta_z))

-----------------------------------------------------------------------------
(* fao_penman_monteith, fao.py 310-333 *)

\* the default of the signature, line 310
shf_default_wrong == Rat(1, 2)

shf_default == Zero

fao_penman_monteith(Rn, t, ws, es, ea, delta_es, psy, shf) ==
    LET den == RAdd(delta_es, RMul(psy, RAdd(One, RMul(Rat(34, 100), ws))))
    IN  IF den.n = 0 \/ t.n = 0
        THEN Raise("ZeroDivisionError")
        ELSE LET a1 == RDiv(RMul(RMul(Rat(408, 1000), RSub(Rn, shf)), delta_es),
                            den)
                 a2 == RDiv(RMul(RMul(RDiv(RMul(Int2R(900), ws), t),
                                      RSub(es, ea)), psy), den)
             IN  Float(RAdd(a1, a2))

-----------------------------------------------------------------------------
(* The math module, by fixed-point approximation. *)

\* floor of the square root of n >= 0, by bisection on lo..hi
RECURSIVE ISqrtIn(_, _, _)
ISqrtIn(n, lo, hi) ==
    IF lo >= hi THEN lo
    ELSE LET mid == (lo + hi + 1) \div 2
         IN  IF mid * mid <= n THEN ISqrtIn(n, mid, hi)
                               ELSE ISqrtIn(n, lo, mid - 1)

\* math.sqrt(x) for 0 <= x < 2000, rounded down to three decimals
math_sqrt(x) == Rat(ISqrtIn(ToFix(x, 10^6), 0, 46340), 10^3)

\* sum of the Taylor series of exp at y (fixed point, four decimals):
\* term is y^k/k!, acc the sum so far
RECURSIVE ExpSeries(_, _, _, _)
ExpSeries(y, k, term, acc) ==
    IF k > 8 THEN acc
    ELSE LET next == (term * y) \div (k * 10^4)
         IN  ExpSeries(y, k + 1, next, acc + next)

\* exp of the fixed-point x >= 0 as exp(x/8)^8
ExpFixPos(x) ==
    LET e8 == ExpSeries(x \div 8, 1, 10^4, 10^4)
        e4 == (e8 * e8) \div 10^4
        e2 == (e4 * e4) \div 10^4
    IN  (e2 * e2) \div 10^4

\* math.exp(x) for -3 <= x <= 3, to about three significant digits
math_exp(x) ==
    LET xf == ToFix(x, 10^4)
    IN  IF xf >= 0 THEN Rat(ExpFixPos(xf), 10^4)
        ELSE Rat((10^4 * 10^4) \div ExpFixPos(-xf), 10^4)

\* math.pi, to four decimals
math_pi == Rat(31416, 10^4)

\* the fixed-point angle x brought into [-pi, pi]
RECURSIVE WrapAngle(_)
WrapAngle(x) ==
    IF x > 31416 THEN WrapAngle(x - 62832)
    ELSE IF x < 0 - 31416 THEN WrapAngle(x + 62832)
    ELSE x

\* integer division rounding toward zero
TDiv(a, b) == IF a >= 0 THEN a \div b ELSE 0 - ((0 - a) \div b)

\* sum of a Taylor series of alternating sign at y in [-pi/2, pi/2] (fixed
\* point): term is the term of degree k, acc the sum so far; the next term is
\* -term * y^2 / ((k+1)(k+2))
RECURSIVE AltSeries(_, _, _, _)
AltSeries(y, k, term, acc) ==
    IF k > 12 THEN acc
    ELSE LET next == 0 - TDiv(TDiv(TDiv(term * y, 10^4) * y, 10^4),
                              (k + 1) * (k + 2))
         IN  AltSeries(y, k + 2, next, acc + next)

\* sin(w) = sin(pi - w), so the series is summed in [-pi/2, pi/2]
SinFix(x) ==
    LET w == WrapAngle(x)
        y == IF w > 15708 THEN 31416 - w
             ELSE IF w < 0 - 15708 THEN 0 - 31416 - w
             ELSE w
    IN  AltSeries(y, 1, y, y)

\* cos(w) = -cos(pi - |w|)
CosFix(x) ==
    LET w == Abs(WrapAngle(x))
    IN  IF w > 15708 THEN 0 - AltSeries(31416 - w, 0, 10^4, 10^4)
        ELSE AltSeries(w, 0, 10^4, 10^4)

math_sin(x) == Rat(SinFix(ToFix(x, 10^4)), 10^4)

math_cos(x) == Rat(CosFix(ToFix(x, 10^4)), 10^4)

\* math.tan(x); where the float tangent is huge (at the float nearest pi/2
\* it is about 1.6e16, not an error) the model saturates it at +-100
math_tan(x) ==
    LET s == SinFix(ToFix(x, 10^4))
        c == CosFix(ToFix(x, 10^4))
        t == IF c = 0 THEN (IF s < 0 THEN 0 - 10^6 ELSE 10^6)
             ELSE TDiv(s * 10^4, c)
    IN  Rat(IF t > 10^6 THEN 10^6 ELSE IF t < 0 - 10^6 THEN 0 - 10^6 ELSE t,
            10^4)

\* the largest fixed-point angle a in lo..hi with cos(a) >= c
RECURSIVE AcosDown(_, _, _)
AcosDown(c, lo, hi) ==
    IF lo >= hi THEN lo
    ELSE LET mid == (lo + hi + 1) \div 2
         IN  IF CosFix(mid) >= c THEN AcosDown(c, mid, hi)
                                 ELSE AcosDown(c, lo, mid - 1)

\* the smallest fixed-point angle a in lo..hi with cos(a) <= c
RECURSIVE AcosUp(_, _, _)
AcosUp(c, lo, hi) ==
    IF lo >= hi THEN lo
    ELSE LET mid == (lo + hi) \div 2
         IN  IF CosFix(mid) <= c THEN AcosUp(c, lo, mid)
                                 ELSE AcosUp(c, mid + 1, hi)

\* math.acos(x) for -1 <= x <= 1, x to three decimals: a value in [0, pi]
math_acos(x) ==
    LET c == 10 * ToFix(x, 10^3)
    IN  Rat(IF c >= 0 THEN AcosUp(c, 0, 15708) ELSE AcosDown(c, 15708, 31416),
            10^4)

\* a product of two floats rounded to three decimals
Mul3(a, b) == Rat((ToFix(a, 10^3) * ToFix(b, 10^3)) \div 10^3, 10^3)

-----------------------------------------------------------------------------
(* The names of the module's global namespace, fao.py 16-23 and every def. *)

ModuleGlobals ==
    {"math", "check_latitude_in_radians", "check_doy",
     "SOLAR_CONSTANT", "STEFAN_BOLTZMANN_CONSTANT",
     "atmospheric_pressure", "clear_sky_radiation", "daily_mean_t",
     "daily_soil_heat_flux", "daylight_hours", "delta_sat_vap_pressure",
     "ea_from_tmin", "ea_from_rhmin_rhmax", "ea_from_rhmax", "ea_from_rhmean",
     "ea_from_tdew", "ea_from_twet_tdry", "energy2equiv_evaporation",
     "es_from_t", "et_radiation", "fao_penman_monteith", "hargreaves",
     "inv_rel_dist_earth_sun", "mean_es", "monthly_soil_heat_flux",
     "monthly_soil_heat_flux2", "net_incoming_solar_radiation",
     "net_outgoing_longwave_radiation", "net_radiation", "psychrometric_const",
     "psychrometric_const_of_psychrometer", "rh_from_ea_es",
     "solar_declination", "solar_radiation_from_sun_hours",
     "solar_radiation_from_t", "solar_radiation_island", "sunset_hour_angle",
     "wind_speed_2m"}

\* The validators of pyeto/_check.py, whose source is not part of src/: each
\* is "ok" or the exception it raises.
check_doy(doy) ==
    IF doy < 1 \/ doy > 366 THEN "ValueError" ELSE "ok"

check_latitude_in_radians(latitude) ==
    IF RLt(latitude, RNeg(Rat(15708, 10^4))) \/ RLt(Rat(15708, 10^4), latitude)
    THEN "ValueError" ELSE "ok"

check_solar_declination_in_radians(sd) ==
    IF RLt(sd, RNeg(Rat(4093, 10^4))) \/ RLt(Rat(4093, 10^4), sd)
    THEN "ValueError" ELSE "ok"

\* A call statement name(...) in a function body: Python looks the name up in
\* the module's globals when the statement runs and raises NameError if it is
\* not bound there; otherwise the callee runs, with the outcome given.
CallGlobal(name, outcome) ==
    IF name \in ModuleGlobals THEN outcome ELSE "NameError"

-----------------------------------------------------------------------------
(* inv_rel_dist_earth_sun, fao.py 357-370 *)

\* (2.0 * math.pi / 365.0) * doy, to four decimals
DayAngle(doy) == Rat(TDiv(2 * ToFix(math_pi, 10^4) * doy, 365), 10^4)

inv_rel_dist_earth_sun(doy) ==
    LET c == CallGlobal("_check_doy", check_doy(doy))
    IN  IF c # "ok" THEN Raise(c)
        ELSE Float(RAdd(One,
                 RMul(Rat(33, 1000),
                      math_cos(DayAngle(doy)))))

-----------------------------------------------------------------------------
(* solar_declination, fao.py 570-581 *)

solar_declination(doy) ==
    LET c == CallGlobal("_check_doy", check_doy(doy))
    IN  IF c # "ok" THEN Raise(c)
        ELSE Float(RMul(Rat(409, 1000),
                 math_sin(RSub(DayAngle(doy), Rat(139, 100)))))

-----------------------------------------------------------------------------
(* sunset_hour_angle, fao.py 677-700 *)

sunset_hour_angle(latitude, sd) ==
    LET c1 == CallGlobal("_check_latitude_in_radians",
                         check_latitude_in_radians(latitude))
        c2 == CallGlobal("_check_solar_declination_in_radians",
                         check_solar_declination_in_radians(sd))
    IN  IF c1 # "ok" THEN Raise(c1)
        ELSE IF c2 # "ok" THEN Raise(c2)
        ELSE LET tmp == Mul3(RNeg(math_tan(latitude)), math_tan(sd))
                 tmp1 == RMax(tmp, RNeg(One))
                 tmp2 == RMin(tmp1, One)
             IN  Float(math_acos(tmp2))

-----------------------------------------------------------------------------
(* et_radiation, fao.py 283-307 *)

\* line 301 hands latitude, not sd, to the solar declination check
et_radiation(latitude, sd, sha, irl, solar_constant) ==
    LET c1 == CallGlobal("_check_latitude_in_radians",
                         check_latitude_in_radians(latitude))
        c2 == CallGlobal("_check_solar_declination_in_radians",
                         check_solar_declination_in_radians(latitude))
    IN  IF c1 # "ok" THEN Raise(c1)
        ELSE IF c2 # "ok" THEN Raise(c2)
        ELSE LET tmp1 == RDiv(Int2R(24 * 60), math_pi)
                 tmp2 == Mul3(Mul3(sha, math_sin(latitude)), math_sin(sd))
                 tmp3 == Mul3(Mul3(math_cos(latitude), math_cos(sd)),
                              math_sin(sha))
             IN  Float(Mul3(Mul3(Mul3(tmp1, solar_constant), irl),
                            RAdd(tmp2, tmp3)))

-----------------------------------------------------------------------------
(* solar_radiation_from_sun_hours, fao.py 584-610 *)

\* Lines 605 and 606 read "_check day_hours(...)": two names side by side,
\* which is no Python statement.  The def does not compile, so no call of the
\* function validates its arguments or returns a number; the outcome of a
\* call is the SyntaxError of the def.  (Read as _check_day_hours(sun_hours,
\* 'sun_hours'), the line would still name a helper and a variable, sun_hours,
\* that are bound nowhere.)
solar_radiation_from_sun_hours(daylight_hours, sunshine_hours, et_rad) ==
    Raise("SyntaxError")

-----------------------------------------------------------------------------
(* solar_radiation_from_t, fao.py 613-652 *)

solar_radiation_from_t_uncapped(et_rad, cs_rad, tmin, tmax, coastal) ==
    LET adj == IF coastal THEN Rat(19, 100) ELSE Rat(16, 100)
    IN  IF RLt(RSub(tmax, tmin), Zero)
        THEN Raise("ValueError")
        ELSE Float(RMul(RMul(adj, math_sqrt(RSub(tmax, tmin))), et_rad))

solar_radiation_from_t(et_rad, cs_rad, tmin, tmax, coastal) ==
    LET adj == IF coastal THEN Rat(19, 100) ELSE Rat(16, 100)
    IN  \* math.sqrt raises ValueError (math domain error) below zero
        IF RLt(RSub(tmax, tmin), Zero)
        THEN Raise("ValueError")
        ELSE LET solar_rad == RMul(RMul(adj, math_sqrt(RSub(tmax, tmin))),
                                   et_rad)
             IN  Float(RMin(solar_rad, cs_rad))

-----------------------------------------------------------------------------
(* hargreaves, fao.py 336-354 *)

\* x ** 0.5 raises nothing for x < 0: the power of a negative number to a
\* fractional exponent is a value of type complex, and so is every product
\* with it
hargreaves(tmin, tmax, tmean, Ra) ==
    IF RLt(RSub(tmax, tmin), Zero)
    THEN Complex
    ELSE Float(RMul(RMul(RMul(Rat(23, 10000), RAdd(tmean, Rat(178, 10))),
                         math_sqrt(RSub(tmax, tmin))), Ra))

-----------------------------------------------------------------------------
(* es_from_t 270-280, ea_from_tdew 208-224, ea_from_tmin 137-155 *)

\* coef * math.exp((17.27 * t) / (t + 237.3))
SatVapPressure(coef, t) ==
    IF RAdd(t, Rat(2373, 10)).n = 0
    THEN Raise("ZeroDivisionError")
    ELSE Float(RMul(coef, math_exp(RDiv(RMul(Rat(1727, 100), t),
                                        RAdd(t, Rat(2373, 10))))))

es_from_t(t) == SatVapPressure(Rat(6108, 10000), t)

ea_from_tdew(tdew) == SatVapPressure(Rat(6108, 10000), tdew)

ea_from_tmin_as_es(tmin) == SatVapPressure(Rat(6108, 10000), tmin)

ea_from_tmin(tmin) == SatVapPressure(Rat(611, 1000), tmin)

-----------------------------------------------------------------------------
(* daylight_hours, fao.py 106-117 *)

\* no validation of sha (line 116)
daylight_hours(sha) == Float(RMul(RDiv(Int2R(24), math_pi), sha))

\* A caller's chain from the raw inputs doy and latitude:
\*     sd = solar_declination(doy); irl = inv_rel_dist_earth_sun(doy)
\*     sha = sunset_hour_angle(latitude, sd)
\*     ra = et_radiation(latitude, sd, sha, irl); n = daylight_hours(sha)
\* The first exception leaves the chain; a chain that completes has the
\* outcome of its last call.
DataChain(doy, latitude, solar_constant) ==
    LET sd == solar_declination(doy)
        irl == inv_rel_dist_earth_sun(doy)
        sha == sunset_hour_angle(latitude, sd.val)
        ra == et_radiation(latitude, sd.val, sha.val, irl.val,
                           solar_constant)
    IN  IF sd.kind # "float" THEN sd
        ELSE IF irl.kind # "float" THEN irl
        ELSE IF sha.kind # "float" THEN sha
        ELSE IF ra.kind # "float" THEN ra
        ELSE daylight_hours(sha.val)

-----------------------------------------------------------------------------
(* wind_speed_2m, fao.py 703-716 *)

\* x = m * 2^k with 1 <= m < 2, for x > 0: the pair <<m, k>>
RECURSIVE LogReduce(_, _)
LogReduce(x, k) ==
    IF RLe(Int2R(2), x) THEN LogReduce(RDiv(x, Int2R(2)), k + 1)
    ELSE IF RLt(x, One) THEN LogReduce(RMul(x, Int2R(2)), k - 1)
    ELSE <<x, k>>

\* u + u^3/3 + u^5/5 + ... (fixed point, five decimals): pow is u^(k-2),
\* acc the sum so far
RECURSIVE AtanhSeries(_, _, _, _)
AtanhSeries(u2, k, pow, acc) ==
    IF k > 11 THEN acc
    ELSE LET next == (pow * u2) \div 10^5
         IN  AtanhSeries(u2, k + 2, next, acc + next \div k)

\* math.log(x) for x > 0, as k ln 2 + 2 atanh((m - 1)/(m + 1)), to about
\* four decimals; exactly 0 at x = 1 and nowhere else for |x - 1| >= 0.001
math_log(x) ==
    LET r == LogReduce(x, 0)
        m == r[1]
        u == ToFix(RDiv(RSub(m, One), RAdd(m, One)), 10^5)
    IN  Rat(r[2] * 69315 + 2 * AtanhSeries((u * u) \div 10^5, 3, u, u), 10^5)

\* the argument of the logarithm, (67.8 * z) - 5.42
WindLogArg(z) == RSub(RMul(Rat(678, 10), z), Rat(542, 100))

wind_speed_2m_zero_at_log_zero(meas_ws, z) ==
    LET a == WindLogArg(z)
    IN  IF RLe(a, Zero) THEN Raise("ValueError")
        ELSE IF math_log(a) = Zero THEN Float(Zero)
        ELSE Float(RMul(meas_ws, RDiv(Rat(487, 100), math_log(a))))

\* math.log of a non-positive number is a ValueError; 4.87 / 0.0 is a
\* ZeroDivisionError
wind_speed_2m(meas_ws, z) ==
    LET a == WindLogArg(z)
    IN  IF RLe(a, Zero) THEN Raise("ValueError")
        ELSE IF math_log(a) = Zero THEN Raise("ZeroDivisionError")
        ELSE Float(RMul(meas_ws, RDiv(Rat(487, 100), math_log(a))))

-----------------------------------------------------------------------------
(* net_outgoing_longwave_radiation, fao.py 451-481 *)

\* math.pow(t, 4) in units of 1e8
math_pow4(t) ==
    LET h == RDiv(t, Int2R(100))
    IN  RMul(RMul(h, h), RMul(h, h))

\* tmp1 reads the module constant (line 477); math.sqrt of a negative ea is
\* a ValueError (line 479) and a zero clear_sky_rad a ZeroDivisionError
\* (line 480)
net_outgoing_longwave_radiation(tmin, tmax, sol_rad, clear_sky_rad, ea, stefan_boltzmann) ==
    IF RLt(ea, Zero) THEN Raise("ValueError")
    ELSE IF clear_sky_rad = Zero THEN Raise("ZeroDivisionError")
    ELSE LET tmp1 == RMul(stefan_boltzmann,
                          RDiv(RAdd(math_pow4(tmax), math_pow4(tmin)),
                               Int2R(2)))
             tmp2 == RSub(Rat(34, 100), RMul(Rat(14, 100), math_sqrt(ea)))
             tmp3 == RSub(RMul(Rat(135, 100), RDiv(sol_rad, clear_sky_rad)),
                          Rat(35, 100))
         IN  Float(RMul(RMul(tmp1, tmp2), tmp3))

-----------------------------------------------------------------------------
(* mean_es, fao.py 373-388 *)

\* es_from_t(tmin) is evaluated first; an exception of either call leaves
\* mean_es.  The variant below forgets the division by 2.0.
mean_es_no_halving(tmin, tmax) ==
    LET e1 == es_from_t(tmin)
        e2 == es_from_t(tmax)
    IN  IF e1.kind # "float" THEN e1
        ELSE IF e2.kind # "float" THEN e2
        ELSE Float(RAdd(e1.val, e2.val))

mean_es(tmin, tmax) ==
    LET e1 == es_from_t(tmin)
        e2 == es_from_t(tmax)
    IN  IF e1.kind # "float" THEN e1
        ELSE IF e2.kind # "float" THEN e2
        ELSE Float(RDiv(RAdd(e1.val, e2.val), Int2R(2)))

-----------------------------------------------------------------------------
(* The client's argument sets. *)

Temps == {Int2R(5 * k - 10) : k \in 0..MaxTempSteps}
\* the temperature at which t + 237.3 is zero
TempSingular == Rat(0 - 2373, 10)
EtRads == {Int2R(10), Int2R(25)}
Doys == (0 - 1)..MaxDoy \cup {400}
Latitudes == {Rat(k, 2) : k \in (0 - MaxLatHalves)..MaxLatHalves}
                 \cup {Rat(15708, 10^4), Rat(0 - 15708, 10^4)}
SolarDeclinations == {Rat(k, 10) : k \in (0 - MaxSdTenths)..MaxSdTenths}
                         \cup {Rat(4093, 10^4), Rat(0 - 4093, 10^4)}
SunsetHourAngles == {Zero, Rat(15708, 10^4), math_pi}
InvRelDists == {One, Rat(1033, 1000)}
Hours == {Int2R(6 * k - 6) : k \in 0..MaxHourSteps}
CsRads == {Int2R(20), Int2R(30)}

MaxWindHeight == 10
\* heights below, at and above the two heights where the logarithm fails:
\* (67.8 * z) - 5.42 is 0 at 271/3390 and 1 at 107/1130
WindHeights == {Int2R(k) : k \in 0..MaxWindHeight}
                   \cup {Rat(5, 100), Rat(271, 3390), Rat(9, 100),
                         Rat(107, 1130), Rat(1, 10), Rat(15, 10)}
WindSpeeds == {Zero, Int2R(3), Rat(55, 10)}
KelvinTemps == {Int2R(200), Int2R(300)}
SolRads == {Int2R(15), Int2R(18)}
VapPressures == {Int2R(0 - 1), Zero, One, Int2R(4)}

DeltaTs == {Rat(k, 2) : k \in 0..MaxDeltaTHalves}
SoilHeatCaps == {soil_heat_cap_default, Int2R(3)}
DeltaZs == {delta_z_default, Rat(2, 10)}
Psychrometers == 0..MaxPsychrometer
AtmosPressures == {Int2R(95), Rat(1013, 10)}
ShfVals == {Rat(k, 2) : k \in 0..MaxShfHalves}

-----------------------------------------------------------------------------
(* The calls. *)

consts == <<SOLAR_CONSTANT, STEFAN_BOLTZMANN_CONSTANT>>

Call_psychrometric_const_of_psychrometer ==
    \E psychrometer \in Psychrometers, atmos_pres \in AtmosPressures :
        /\ fn = "none"
        /\ fn' = "psychrometric_const_of_psychrometer"
        /\ args' = [psychrometer |-> psychrometer, atmos_pres |-> atmos_pres]
        /\ result' = psychrometric_const_of_psychrometer(psychrometer, atmos_pres)
        /\ UNCHANGED <<consts, frames>>

\* a keyword argument the caller leaves out is recorded with the value Zero
\* and its name is absent from given
Call_daily_soil_heat_flux ==
    \E t_cur \in Temps, t_prev \in Temps, delta_t \in DeltaTs,
       given \in SUBSET {"soil_heat_cap", "delta_z"},
       shc \in SoilHeatCaps, dz \in DeltaZs :
        /\ fn = "none"
        /\ fn' = "daily_soil_heat_flux"
        /\ args' = [t_cur |-> t_cur, t_prev |-> t_prev, delta_t |-> delta_t,
                    given |-> given,
                    soil_heat_cap |-> Bind(given, "soil_heat_cap", shc, Zero),
                    delta_z |-> Bind(given, "delta_z", dz, Zero)]
        /\ result' = daily_soil_heat_flux(
                         t_cur, t_prev, delta_t,
                         Bind(given, "soil_heat_cap", shc, soil_heat_cap_default),
                         Bind(given, "delta_z", dz, delta_z_default))
        /\ UNCHANGED <<consts, frames>>

Call_fao_penman_monteith ==
    \E Rn \in {Int2R(10), Int2R(15)}, t \in {Zero, Int2R(290)},
       ws \in {Zero, Int2R(2)}, es \in {Int2R(2)}, ea \in {One, Rat(3, 2)},
       delta_es \in {Zero, Rat(1, 10)}, psy \in {Zero, Rat(67, 1000)},
       given \in SUBSET {"shf"}, shf \in ShfVals :
        /\ fn = "none"
        /\ fn' = "fao_penman_monteith"
        /\ args' = [Rn |-> Rn, t |-> t, ws |-> ws, es |-> es, ea |-> ea,
                    delta_es |-> delta_es, psy |-> psy, given |-> given,
                    shf |-> Bind(given, "shf", shf, Zero)]
        /\ result' = fao_penman_monteith(Rn, t, ws, es, ea, delta_es, psy,
                                         Bind(given, "shf", shf, shf_default))
        /\ UNCHANGED <<consts, frames>>

-----------------------------------------------------------------------------

Call_solar_radiation_from_t ==
    \E et_rad \in EtRads, cs_rad \in CsRads, tmin \in Temps, tmax \in Temps,
       coastal \in BOOLEAN :
        /\ fn = "none"
        /\ fn' = "solar_radiation_from_t"
        /\ args' = [et_rad |-> et_rad, cs_rad |-> cs_rad, tmin |-> tmin,
                    tmax |-> tmax, coastal |-> coastal]
        /\ result' = solar_radiation_from_t(et_rad, cs_rad, tmin, tmax, coastal)
        /\ UNCHANGED <<consts, frames>>

Call_hargreaves ==
    \E tmin \in Temps, tmax \in Temps, tmean \in Temps,
       Ra \in {Int2R(15), Rat(25, 2)} :
        /\ fn = "none"
        /\ fn' = "hargreaves"
        /\ args' = [tmin |-> tmin, tmax |-> tmax, tmean |-> tmean, Ra |-> Ra]
        /\ result' = hargreaves(tmin, tmax, tmean, Ra)
        /\ UNCHANGED <<consts, frames>>

Call_es_from_t ==
    \E t \in Temps \cup {TempSingular} :
        /\ fn = "none"
        /\ fn' = "es_from_t"
        /\ args' = [t |-> t]
        /\ result' = es_from_t(t)
        /\ UNCHANGED <<consts, frames>>

Call_ea_from_tdew ==
    \E tdew \in Temps \cup {TempSingular} :
        /\ fn = "none"
        /\ fn' = "ea_from_tdew"
        /\ args' = [tdew |-> tdew]
        /\ result' = ea_from_tdew(tdew)
        /\ UNCHANGED <<consts, frames>>

Call_ea_from_tmin ==
    \E tmin \in Temps \cup {TempSingular} :
        /\ fn = "none"
        /\ fn' = "ea_from_tmin"
        /\ args' = [tmin |-> tmin]
        /\ result' = ea_from_tmin(tmin)
        /\ UNCHANGED <<consts, frames>>

Call_net_outgoing_longwave_radiation ==
    \E tmin \in KelvinTemps, tmax \in KelvinTemps, sol_rad \in SolRads,
       clear_sky_rad \in CsRads \cup {Zero}, ea \in VapPressures :
        /\ fn = "none"
        /\ fn' = "net_outgoing_longwave_radiation"
        /\ args' = [tmin |-> tmin, tmax |-> tmax, sol_rad |-> sol_rad,
                    clear_sky_rad |-> clear_sky_rad, ea |-> ea]
        /\ result' = net_outgoing_longwave_radiation(
                          tmin, tmax, sol_rad, clear_sky_rad, ea,
                          STEFAN_BOLTZMANN_CONSTANT)
        /\ UNCHANGED <<consts, frames>>

Call_daylight_hours ==
    \E sha \in SunsetHourAngles :
        /\ fn = "none"
        /\ fn' = "daylight_hours"
        /\ args' = [sha |-> sha]
        /\ result' = daylight_hours(sha)
        /\ UNCHANGED <<consts, frames>>

\* a caller runs the chain from doy and latitude
Call_DataChain ==
    \E doy \in Doys, latitude \in Latitudes :
        /\ fn = "none"
        /\ fn' = "DataChain"
        /\ args' = [doy |-> doy, latitude |-> latitude]
        /\ result' = DataChain(doy, latitude, SOLAR_CONSTANT)
        /\ UNCHANGED <<consts, frames>>

Call_wind_speed_2m ==
    \E meas_ws \in WindSpeeds, z \in WindHeights :
        /\ fn = "none"
        /\ fn' = "wind_speed_2m"
        /\ args' = [meas_ws |-> meas_ws, z |-> z]
        /\ result' = wind_speed_2m(meas_ws, z)
        /\ UNCHANGED <<consts, frames>>

Call_mean_es ==
    \E tmin \in Temps \cup {TempSingular}, tmax \in Temps \cup {TempSingular} :
        /\ fn = "none"
        /\ fn' = "mean_es"
        /\ args' = [tmin |-> tmin, tmax |-> tmax]
        /\ result' = mean_es(tmin, tmax)
        /\ UNCHANGED <<consts, frames>>

Call_inv_rel_dist_earth_sun ==
    \E doy \in Doys :
        /\ fn = "none"
        /\ fn' = "inv_rel_dist_earth_sun"
        /\ args' = [doy |-> doy]
        /\ result' = inv_rel_dist_earth_sun(doy)
        /\ UNCHANGED <<consts, frames>>

Call_solar_declination ==
    \E doy \in Doys :
        /\ fn = "none"
        /\ fn' = "solar_declination"
        /\ args' = [doy |-> doy]
        /\ result' = solar_declination(doy)
        /\ UNCHANGED <<consts, frames>>

Call_sunset_hour_angle ==
    \E latitude \in Latitudes, sd \in SolarDeclinations :
        /\ fn = "none"
        /\ fn' = "sunset_hour_angle"
        /\ args' = [latitude |-> latitude, sd |-> sd]
        /\ result' = sunset_hour_angle(latitude, sd)
        /\ UNCHANGED <<consts, frames>>

Call_et_radiation ==
    \E latitude \in Latitudes, sd \in SolarDeclinations,
       sha \in SunsetHourAngles, irl \in InvRelDists :
        /\ fn = "none"
        /\ fn' = "et_radiation"
        /\ args' = [latitude |-> latitude, sd |-> sd, sha |-> sha, irl |-> irl]
        /\ result' = et_radiation(latitude, sd, sha, irl, SOLAR_CONSTANT)
        /\ UNCHANGED <<consts, frames>>

Call_solar_radiation_from_sun_hours ==
    \E day_hours \in Hours, sunshine_hours \in Hours, et_rad \in EtRads :
        /\ fn = "none"
        /\ fn' = "solar_radiation_from_sun_hours"
        /\ args' = [daylight_hours |-> day_hours,
                    sunshine_hours |-> sunshine_hours, et_rad |-> et_rad]
        /\ result' = solar_radiation_from_sun_hours(day_hours,
                                                    sunshine_hours, et_rad)
        /\ UNCHANGED <<consts, frames>>

NoArgs == [given |-> {}]
NoResult == [kind |-> "none", val |-> Zero]

MaxThreads == 2
Threads == 1..MaxThreads
\* a thread that is in no function of the module
IdleFrame == [pc |-> "idle", fn |-> "none", args |-> NoArgs,
              result |-> NoResult]

\* the client has consumed the outcome of its call and is free to call again
Return ==
    /\ fn # "none"
    /\ fn' = "none"
    /\ args' = NoArgs
    /\ result' = NoResult
    /\ UNCHANGED <<consts, frames>>

Init ==
    /\ fn = "none"
    /\ args = NoArgs
    /\ result = NoResult
    /\ SOLAR_CONSTANT = Rat(820, 10000)
    /\ STEFAN_BOLTZMANN_CONSTANT = Rat(4903, 10^4)
    /\ frames = [t \in Threads |-> IdleFrame]

Next ==
    \/ Call_psychrometric_const_of_psychrometer
    \/ Call_daily_soil_heat_flux
    \/ Call_fao_penman_monteith
    \/ Call_solar_radiation_from_t
    \/ Call_hargreaves
    \/ Call_es_from_t
    \/ Call_ea_from_tdew
    \/ Call_ea_from_tmin
    \/ Call_mean_es
    \/ Call_wind_speed_2m
    \/ Call_daylight_hours
    \/ Call_DataChain
    \/ Call_net_outgoing_longwave_radiation
    \/ Call_inv_rel_dist_earth_sun
    \/ Call_solar_declination
    \/ Call_sunset_hour_angle
    \/ Call_et_radiation
    \/ Call_solar_radiation_from_sun_hours
    \/ Return

Spec == Init /\ [][Next]_vars

-----------------------------------------------------------------------------
(* Calls from several threads of one interpreter. *)

\* the calls the threads make: one function that reads each module constant
\* and two that read none, with arguments on which they return and on which
\* they fail
ConcCalls ==
    {[fn |-> "es_from_t", args |-> [t |-> t]] :
        t \in {Int2R(20), TempSingular}}
    \cup {[fn |-> "et_radiation",
           args |-> [latitude |-> Rat(1, 2), sd |-> Rat(2, 10),
                     sha |-> Rat(15708, 10^4), irl |-> irl]] :
        irl \in InvRelDists}
    \cup {[fn |-> "net_outgoing_longwave_radiation",
           args |-> [tmin |-> Int2R(200), tmax |-> Int2R(300),
                     sol_rad |-> Int2R(15), clear_sky_rad |-> cs,
                     ea |-> ea]] :
        cs \in {Zero, Int2R(20)}, ea \in {Int2R(0 - 1), One}}

\* the outcome of the body of f on the locals a, with the module constants
\* as the body finds them
RunBody(f, a, solar_constant, stefan_boltzmann) ==
    CASE f = "es_from_t" -> es_from_t(a.t)
      [] f = "et_radiation" ->
            et_radiation(a.latitude, a.sd, a.sha, a.irl, solar_constant)
      [] f = "net_outgoing_longwave_radiation" ->
            net_outgoing_longwave_radiation(a.tmin, a.tmax, a.sol_rad,
                                            a.clear_sky_rad, a.ea,
                                            stefan_boltzmann)

\* the value of the module name after the body of f has run: no def has a
\* global statement, every assignment in a body binds a local.  The variant
\* is a body that rebinds the constant it reads.
StoreGlobal_rebinds(f, name, current) ==
    IF f = "net_outgoing_longwave_radiation"
           /\ name = "STEFAN_BOLTZMANN_CONSTANT"
    THEN RMul(current, Int2R(2))
    ELSE current

StoreGlobal(f, name, current) == current

\* thread t calls a function: a frame is made and the arguments are bound
Enter(t) ==
    \E c \in ConcCalls :
        /\ frames[t].pc = "idle"
        /\ frames' = [frames EXCEPT ![t] = [pc |-> "entered", fn |-> c.fn,
                                            args |-> c.args,
                                            result |-> NoResult]]
        /\ UNCHANGED <<fn, args, result, consts>>

\* thread t runs the body to its return or to the exception that leaves it
RunToExit(t) ==
    /\ frames[t].pc = "entered"
    /\ frames' = [frames EXCEPT
                    ![t].pc = "done",
                    ![t].result = RunBody(frames[t].fn, frames[t].args,
                                          SOLAR_CONSTANT,
                                          STEFAN_BOLTZMANN_CONSTANT)]
    /\ SOLAR_CONSTANT' = StoreGlobal(frames[t].fn, "SOLAR_CONSTANT",
                                     SOLAR_CONSTANT)
    /\ STEFAN_BOLTZMANN_CONSTANT' =
           StoreGlobal(frames[t].fn, "STEFAN_BOLTZMANN_CONSTANT",
                       STEFAN_BOLTZMANN_CONSTANT)
    /\ UNCHANGED <<fn, args, result>>

\* the caller in thread t takes the outcome
Leave(t) ==
    /\ frames[t].pc = "done"
    /\ frames' = [frames EXCEPT ![t] = IdleFrame]
    /\ UNCHANGED <<fn, args, result, consts>>

NextConc == \E t \in Threads : Enter(t) \/ RunToExit(t) \/ Leave(t)

SpecConc == Init /\ [][NextConc]_vars

-----------------------------------------------------------------------------
(* The claims.  Both error classes of the specification, the domain error  *)
(* and the invalid-argument error, are Python's ValueError in this library *)
(* (lines 98 and 547; math.sqrt's "math domain error").                    *)

InLatitudeRange(latitude) ==
    RLe(Rat(0 - 15708, 10^4), latitude) /\ RLe(latitude, Rat(15708, 10^4))

InDeclinationRange(sd) ==
    RLe(Rat(0 - 4093, 10^4), sd) /\ RLe(sd, Rat(4093, 10^4))

InDayHours(h) == RLe(Zero, h) /\ RLe(h, Int2R(24))

\* C1: for every latitude in [-pi/2, pi/2] and every solar declination in
\* [-0.4093, 0.4093], sunset_hour_angle returns a value in [0, pi] and never
\* raises.
C1_SunsetHourAngleReturns ==
    (/\ fn = "sunset_hour_angle"
     /\ InLatitudeRange(args.latitude)
     /\ InDeclinationRange(args.sd))
        => /\ result.kind = "float"
           /\ RLe(Zero, result.val)
           /\ RLe(result.val, math_pi)

\* C2: solar_declination and inv_rel_dist_earth_sun fail with a domain error
\* exactly when doy is outside [1, 366]; every doy from 1 to 366 is accepted
\* and yields a number.
C2_DoyValidated ==
    fn \in {"solar_declination", "inv_rel_dist_earth_sun"}
        => /\ (args.doy < 1 \/ args.doy > 366) <=> result.kind = "ValueError"
           /\ (1 <= args.doy /\ args.doy <= 366) => result.kind = "float"

\* C3: et_radiation fails with a domain error if latitude is outside
\* [-pi/2, pi/2] or sd is outside [-0.4093, 0.4093], and returns a number
\* whenever both are inside their ranges.
C3_EtRadiationValidates ==
    fn = "et_radiation"
        => IF InLatitudeRange(args.latitude) /\ InDeclinationRange(args.sd)
           THEN result.kind = "float"
           ELSE result.kind = "ValueError"

\* the estimate of solar_radiation_from_t before it is capped, for the
\* arguments of the call
C4_Estimate ==
    RMul(RMul(IF args.coastal THEN Rat(19, 100) ELSE Rat(16, 100),
              math_sqrt(RSub(args.tmax, args.tmin))),
         args.et_rad)

\* C4: for tmax >= tmin, solar_radiation_from_t returns
\* min(adj*sqrt(tmax-tmin)*et_rad, cs_rad) with adj 0.19 if coastal and 0.16
\* otherwise: the result never exceeds cs_rad and is the uncapped estimate
\* whenever that estimate is at most cs_rad.
C4_CappedAtClearSky ==
    (fn = "solar_radiation_from_t" /\ RLe(args.tmin, args.tmax))
        => /\ result.kind = "float"
           /\ RLe(result.val, args.cs_rad)
           /\ RLe(C4_Estimate, args.cs_rad) => result.val = C4_Estimate
           /\ RLt(args.cs_rad, C4_Estimate) => result.val = args.cs_rad

\* a call whose estimate exceeds the clear sky radiation and is capped
C4_Witness ==
    /\ fn = "solar_radiation_from_t"
    /\ RLe(args.tmin, args.tmax)
    /\ RLt(args.cs_rad, C4_Estimate)
    /\ result = Float(args.cs_rad)

\* C5: hargreaves fails with a domain error for every call with tmax < tmin;
\* it returns no value in that case.
C5_HargreavesRejectsNegativeRadicand ==
    (fn = "hargreaves" /\ RLt(args.tmax, args.tmin))
        => result.kind = "ValueError"

\* C6: psychrometric_const_of_psychrometer returns 0.000662, 0.000800 or
\* 0.001200 times atmos_pres for the types 1, 2 and 3, and fails with an
\* invalid-argument error, returning no number, for every other type.
C6_PsychrometerCoefficient ==
    fn = "psychrometric_const_of_psychrometer"
        => /\ args.psychrometer = 1
                => result = Float(RMul(Rat(662, 1000000), args.atmos_pres))
           /\ args.psychrometer = 2
                => result = Float(RMul(Rat(800, 1000000), args.atmos_pres))
           /\ args.psychrometer = 3
                => result = Float(RMul(Rat(1200, 1000000), args.atmos_pres))
           /\ args.psychrometer \notin {1, 2, 3}
                => result.kind = "ValueError"

\* a call with the unknown psychrometer type 4, which is rejected
C6_Witness ==
    /\ fn = "psychrometric_const_of_psychrometer"
    /\ args.psychrometer = 4
    /\ result.kind = "ValueError"

C8_SunHoursValidated ==
    fn = "solar_radiation_from_sun_hours"
        => /\ (~InDayHours(args.daylight_hours)
                 \/ ~InDayHours(args.sunshine_hours))
                => result.kind = "ValueError"
           /\ (/\ InDayHours(args.daylight_hours)
               /\ InDayHours(args.sunshine_hours)
               /\ args.daylight_hours # Zero)
                => result = Float(RMul(
                       RAdd(RDiv(RMul(Rat(1, 2), args.sunshine_hours),
                                 args.daylight_hours),
                            Rat(1, 4)),
                       args.et_rad))

\* C9: fao_penman_monteith called without shf returns what the call with
\* shf = 0 and the same other arguments returns.
C9_DefaultShfIsZero ==
    (fn = "fao_penman_monteith" /\ "shf" \notin args.given)
        => result = fao_penman_monteith(args.Rn, args.t, args.ws, args.es,
                                        args.ea, args.delta_es, args.psy, Zero)

\* a call without shf that returns a number which depends on shf: the same
\* call with shf = 1/2 returns another
C9_Witness ==
    /\ fn = "fao_penman_monteith"
    /\ "shf" \notin args.given
    /\ result.kind = "float"
    /\ result # fao_penman_monteith(args.Rn, args.t, args.ws, args.es,
                                    args.ea, args.delta_es, args.psy,
                                    Rat(1, 2))

\* C10 as stated: for every temperature t, ea_from_tmin(t) equals
\* es_from_t(t), and therefore ea_from_tdew(t).
C10_EaFromTminIsEs ==
    fn = "ea_from_tmin"
        => /\ result = es_from_t(args.tmin)
           /\ result = ea_from_tdew(args.tmin)

\* C10 as amended: ea_from_tmin(t) is 0.611 * exp(17.27*t/(t+237.3)), while
\* es_from_t(t) and ea_from_tdew(t) are both 0.6108 * exp(17.27*t/(t+237.3));
\* where the exponential is not zero ea_from_tmin(t) differs from
\* es_from_t(t), and at t = -237.3 all three raise ZeroDivisionError.
C10_EaFromTminCoefficient ==
    fn = "ea_from_tmin"
        => LET t == args.tmin
               den == RAdd(t, Rat(2373, 10))
           IN  /\ es_from_t(t) = ea_from_tdew(t)
               /\ IF den = Zero
                  THEN /\ result.kind = "ZeroDivisionError"
                       /\ es_from_t(t).kind = "ZeroDivisionError"
                  ELSE LET e == math_exp(RDiv(RMul(Rat(1727, 100), t), den))
                       IN  /\ result = Float(RMul(Rat(611, 1000), e))
                           /\ es_from_t(t) = Float(RMul(Rat(6108, 10000), e))
                           /\ e # Zero => result # es_from_t(t)

\* a call of ea_from_tmin that returns a number other than es_from_t's
C10_Witness ==
    /\ fn = "ea_from_tmin"
    /\ result.kind = "float"
    /\ es_from_t(args.tmin).kind = "float"
    /\ result # es_from_t(args.tmin)

\* C11: for every temperature t, mean_es(t, t) equals es_from_t(t), the
\* saturation vapour pressure at t (or fails as es_from_t(t) fails).
C11_MeanEsOfEqualTemperatures ==
    (fn = "mean_es" /\ args.tmin = args.tmax) => result = es_from_t(args.tmin)

\* a call of mean_es with two identical temperatures that returns a number
C11_Witness ==
    /\ fn = "mean_es"
    /\ args.tmin = args.tmax
    /\ result.kind = "float"
    /\ result.val # Zero

\* C12: no call changes shared state: SOLAR_CONSTANT stays 0.0820 and
\* STEFAN_BOLTZMANN_CONSTANT stays 4.903e-9 after any sequence of calls,
\* returning or failing, and under any interleaving of the calls of several
\* threads each call has the outcome it has when it runs alone.
C12_NoSharedStateChange ==
    /\ SOLAR_CONSTANT = Rat(820, 10^4)
    /\ STEFAN_BOLTZMANN_CONSTANT = Rat(4903, 10^4)
    /\ \A t \in Threads :
           frames[t].pc = "done" =>
               frames[t].result = RunBody(frames[t].fn, frames[t].args,
                                          Rat(820, 10^4), Rat(4903, 10^4))

\* two threads were in the module at once: one ran the body that reads
\* STEFAN_BOLTZMANN_CONSTANT to its return, the other failed
C12_Witness ==
    \E t \in Threads, u \in Threads :
        /\ t # u
        /\ frames[t].pc = "done"
        /\ frames[t].fn = "net_outgoing_longwave_radiation"
        /\ frames[t].result.kind = "float"
        /\ frames[u].pc = "done"
        /\ frames[u].result.kind \notin {"float", "none"}

\* C13 as stated: wind_speed_2m(meas_ws, z) fails if and only if
\* 67.8*z - 5.42 <= 0, and returns a number for every other z, the height
\* where 67.8*z - 5.42 = 1 included.
C13_FailsOnlyBelowDomain ==
    fn = "wind_speed_2m" =>
        (result.kind # "float" <=> RLe(WindLogArg(args.z), Zero))

\* C13, amended: wind_speed_2m(meas_ws, z) fails if and only if
\* 67.8*z - 5.42 <= 0 (ValueError of the logarithm) or 67.8*z - 5.42 = 1
\* (the logarithm is 0: ZeroDivisionError); for every other z and every
\* meas_ws it returns meas_ws * 4.87 / ln(67.8*z - 5.42).
C13_WindSpeedFailures ==
    fn = "wind_speed_2m" =>
        LET a == WindLogArg(args.z)
        IN  /\ RLe(a, Zero) => result = Raise("ValueError")
            /\ a = One => result = Raise("ZeroDivisionError")
            /\ (RLt(Zero, a) /\ a # One) =>
                   /\ result.kind = "float"
                   /\ RMul(result.val, math_log(a))
                          = RMul(args.meas_ws, Rat(487, 100))

\* a call at the height where the logarithm is 0
C13_Witness ==
    /\ fn = "wind_speed_2m"
    /\ WindLogArg(args.z) = One
    /\ result.kind = "ZeroDivisionError"

\* C14: the chain solar_declination, inv_rel_dist_earth_sun,
\* sunset_hour_angle, et_radiation, daylight_hours never fails on valid raw
\* inputs: for every doy in [1, 366] and latitude in [-pi/2, pi/2] it runs
\* to completion with no error.
C14_DataChainCompletes ==
    (fn = "DataChain" /\ args.doy \in 1..366 /\ InLatitudeRange(args.latitude))
        => result.kind = "float"

====
